---- MODULE Spec2Model ----
(***************************************************************************)
(* A model of src/wireworld.py: the Wireworld grid held by a               *)
(* WireWorldInstance, the transition rule (cycle_states / update_states /  *)
(* advance_step), ingestion (parse_array), resizing (resize_array /        *)
(* resize) and the edit box (viewport).                                    *)
(*                                                                         *)
(* A numpy 2-D array is a record [shape |-> <<rows, cols>>, data |-> rows] *)
(* where data is a sequence of rows, each a sequence of cell values.       *)
(* Python's 0-based row and column numbers are kept in every coordinate;   *)
(* Cell(a, r, c) reads a.data[r + 1][c + 1].                               *)
(***************************************************************************)
EXTENDS Integers, Sequences, FiniteSets, TLC

VARIABLES
    array_states,           \* self.array_states
    array_states_original,  \* self.array_states_original (meaningful when has_original)
    has_original,           \* "array_states_original" in self.__dict__
    generations,            \* self.generations
    edit_top_left,          \* self.edit_top_left, <<row, column>>
    edit_dimensions,        \* self.edit_dimensions, <<rows, columns>>
    keep_playing,           \* self.keep_playing
    play_pc,                \* position of the loop of continuous_play_start
    map_open,               \* window_map / gui_map exist
    edit_open,              \* window_edit / gui_edit exist
    buttons,                \* ButtonWireCell.state of the edit matrix, 10 x 10
    cell_tk,                \* tk state of the matrix buttons: "refresh", "normal", "disabled"
    array_changes,          \* the change list last handed to update_states
    last_call,              \* the handler that ran last, its arguments and outcome
    clicks                  \* number of presses of matrix, add and del buttons so far

vars == <<array_states, array_states_original, has_original, generations,
          edit_top_left, edit_dimensions, keep_playing, play_pc, map_open,
          edit_open, buttons, cell_tk, array_changes, last_call, clicks>>

----------------------------------------------------------------------------
(* Bounds of the model.                                                    *)

\* SpecStep starts from every grid of at most MaxCells cells.
MaxCells == 5
\* advance_step is taken while generations < MaxGen.
MaxGen == 2
\* The buttons of the edit window that change the grid (the matrix
\* buttons and the add and del buttons) are pressed at most MaxClicks times.
MaxClicks == 1
\* SpecResize starts from every grid of at most MaxResizeCells cells and
\* resizes by at most MaxRanks ranks.
MaxResizeCells == 3
MaxRanks == 2
\* The ranks by which a grid exceeds the edit box, on an axis.
MaxSlack == 2
\* The ranks move_edit_box is asked to move by.
MaxMove == 1
\* The records of a change list handed to update_states.
MaxChanges == 2
\* The presses of matrix buttons in an editing session.
MaxEdits == 4

----------------------------------------------------------------------------
(* Program constants.                                                      *)

valid_states == <<0, 1, 2, 3>>

\* len(color_lookup)
ColorCount == 4

\* wipe_wireworld: self.edit_dimensions = [10, 10]
EditRows == 10
EditCols == 10

array_default ==
    [shape |-> <<7, 7>>,
     data  |-> << <<0, 0, 0, 3, 0, 0, 0>>,
                  <<0, 3, 0, 3, 0, 3, 0>>,
                  <<3, 0, 3, 0, 3, 0, 3>>,
                  <<1, 0, 0, 3, 0, 0, 1>>,
                  <<2, 0, 3, 3, 3, 0, 2>>,
                  <<0, 3, 0, 3, 0, 3, 0>>,
                  <<0, 0, 0, 3, 0, 0, 0>> >>]

----------------------------------------------------------------------------
(* Arrays.                                                                 *)

Max(a, b) == IF a >= b THEN a ELSE b
Min(a, b) == IF a <= b THEN a ELSE b

Rows(a) == a.shape[1]
Cols(a) == a.shape[2]
Cell(a, r, c) == a.data[r + 1][c + 1]

\* every (row, column) of an array
Coords(a) == (0 .. Rows(a) - 1) \X (0 .. Cols(a) - 1)

\* np.zeros((rows, cols))
Zeros(rows, cols) ==
    [shape |-> <<rows, cols>>,
     data  |-> [r \in 1 .. rows |-> [c \in 1 .. cols |-> 0]]]

\* a[r0:r1, c0:c1] for bounds that are not negative: numpy clips both ends
\* of a slice to the length of the axis.
Slice2D(a, r0, r1, c0, c1) ==
    LET rs == Min(r0, Rows(a))
        re == Max(rs, Min(r1, Rows(a)))
        cs == Min(c0, Cols(a))
        ce == Max(cs, Min(c1, Cols(a)))
    IN  [shape |-> <<re - rs, ce - cs>>,
         data  |-> [r \in 1 .. (re - rs) |->
                       [c \in 1 .. (ce - cs) |-> a.data[rs + r][cs + c]]]]

RECURSIVE SumSeq(_)
SumSeq(s) == IF s = <<>> THEN 0 ELSE Head(s) + SumSeq(Tail(s))

\* sum(sum(np.where(a == 1, 1, 0))): the rows are added up elementwise, then
\* the entries of the resulting row.
SumOfHeads(a) ==
    LET marks == [r \in 1 .. Rows(a) |->
                     [c \in 1 .. Cols(a) |-> IF a.data[r][c] = 1 THEN 1 ELSE 0]]
        column_sums == [c \in 1 .. Cols(a) |->
                           SumSeq([r \in 1 .. Rows(a) |-> marks[r][c]])]
    IN  SumSeq(column_sums)

----------------------------------------------------------------------------
(* cycle_states (lines 853-886).                                           *)

\* What parse_array and cleanse_array may be handed: a numpy array
\* ("ndarray"), nested Python lists of depth 1, 2 or 3 ("list1", "list2",
\* "list3"), or None ("none", what load_file and format_yaml return for a
\* file without content).
AsInput(a) == [kind |-> "ndarray", data |-> a]

\* np.array(x).ndim. Rows of unequal length make numpy build a 1-dimensional
\* array of list objects (or raise ValueError, which the finally clause of
\* check_2d_array swallows); an empty outer list is 1-dimensional.
np_ndim(x) ==
    CASE x.kind = "none"    -> 0
      [] x.kind = "ndarray" -> Len(x.data.shape)
      [] x.kind = "list1"   -> 1
      [] x.kind = "list2"   ->
            IF /\ Len(x.data) > 0
               /\ \A i \in 1 .. Len(x.data) : Len(x.data[i]) = Len(x.data[1])
            THEN 2 ELSE 1
      [] x.kind = "list3"   -> 3

\* check_2d_array (lines 824-830).
check_2d_array(x) == np_ndim(x) = 2

\* cleanse_state (lines 816-821).
cleanse_state(state) ==
    IF \E i \in 1 .. Len(valid_states) : valid_states[i] = state
    THEN state ELSE valid_states[1]

\* What cleanse_array returns for an input that passes check_2d_array
\* (lines 846-850): the loop assigns cleanse_state(c) to its own variable c
\* and never stores it, so the input comes back as it went in.
cleanse_array(x) == x

\* np.array(deepcopy(x)) for an input that passes check_2d_array.
np_array(x) ==
    IF x.kind = "ndarray" THEN x.data
    ELSE [shape |-> <<Len(x.data), Len(x.data[1])>>, data |-> x.data]

\* A neighbourhood that wraps around the edges of the grid.
head_check_wrapped(array_input, rx, cx) ==
    LET R == Rows(array_input)
        C == Cols(array_input)
        around == {<<(rx + dr) % R, (cx + dc) % C>> : dr \in {-1, 0, 1}, dc \in {-1, 0, 1}}
    IN  Cardinality({n \in around : array_input.data[n[1] + 1][n[2] + 1] = 1})

\* head_check of lines 871-875 for the cell (rx, cx).
head_check(array_input, rx, cx) ==
    SumOfHeads(Slice2D(array_input,
                       Max(rx - 1, 0), Max(rx + 2, 0),
                       Max(cx - 1, 0), Max(cx + 2, 0)))

\* A conductor that turns into a head next to any number of heads.
has_future_any_heads(array_input, rx, cx) ==
    LET state == Cell(array_input, rx, cx)
    IN  \/ state \in {1, 2}
        \/ state = 3 /\ head_check(array_input, rx, cx) >= 1

\* Whether lines 866-878 give the cell a state_future other than None.
has_future(array_input, rx, cx) ==
    LET state == Cell(array_input, rx, cx)
    IN  \/ state \in {1, 2}
        \/ state = 3 /\ head_check(array_input, rx, cx) \in {1, 2}

\* A head that turns into a conductor at once.
state_future_no_tail(array_input, rx, cx) ==
    LET state == Cell(array_input, rx, cx)
    IN  IF state \in {1, 2} THEN 3 ELSE 1

\* state_future of lines 866-878, for a cell that has one.
state_future(array_input, rx, cx) ==
    LET state == Cell(array_input, rx, cx)
    IN  IF state \in {1, 2} THEN state + 1 ELSE 1

\* A loop body that also writes the future state into the array it reads.
cycle_cell_inplace(st, rx, cx) ==
    IF has_future(st.array_input, rx, cx)
    THEN LET f == state_future(st.array_input, rx, cx)
         IN  [array_input   |-> [st.array_input EXCEPT !.data[rx + 1][cx + 1] = f],
              array_changes |-> Append(st.array_changes, <<rx, cx, f>>)]
    ELSE st

\* A loop body that appends a record for every cell, changed or not.
cycle_cell_every(st, rx, cx) ==
    [st EXCEPT !.array_changes =
        Append(@, <<rx, cx,
                    IF has_future(st.array_input, rx, cx)
                    THEN state_future(st.array_input, rx, cx)
                    ELSE Cell(st.array_input, rx, cx)>>)]

\* One pass of the loop body (lines 863-884) over the cell (rx, cx):
\* st.array_input is the array the function was given, as it is now, and
\* st.array_changes the records appended so far.
cycle_cell(st, rx, cx) ==
    IF has_future(st.array_input, rx, cx)
    THEN [st EXCEPT !.array_changes =
             Append(@, <<rx, cx, state_future(st.array_input, rx, cx)>>)]
    ELSE st

\* The two nested loops of lines 861-862, in row-major order, from cell k on.
RECURSIVE cycle_loop(_, _)
cycle_loop(st, k) ==
    LET cols == Cols(st.array_input)
        n    == Rows(st.array_input) * cols
    IN  IF k >= n THEN st
        ELSE cycle_loop(cycle_cell(st, k \div cols, k % cols), k + 1)

\* cycle_states: the array given (numpy passes it by reference) as it is
\* when the function returns, and the change list returned.
cycle_states(array_input) ==
    cycle_loop([array_input |-> cleanse_array(array_input), array_changes |-> <<>>], 0)

----------------------------------------------------------------------------
(* update_states (lines 536-555).                                          *)

\* self.array_states[row][column] accepts an index i of an axis of length n
\* when -n <= i < n; a negative one counts from the end.
IndexOk(i, n) == -n <= i /\ i < n
NormIndex(i, n) == IF i < 0 THEN i + n ELSE i

\* Lines 546-547: the records are written one after the other; an index out
\* of range raises IndexError and leaves the records before it written.
RECURSIVE write_changes(_, _)
write_changes(st, changes) ==
    IF changes = <<>> THEN st
    ELSE LET ch == Head(changes)
             a  == st.array
         IN  IF IndexOk(ch[1], Rows(a)) /\ IndexOk(ch[2], Cols(a))
             THEN write_changes(
                      [array |-> [a EXCEPT !.data[NormIndex(ch[1], Rows(a)) + 1]
                                                  [NormIndex(ch[2], Cols(a)) + 1] = ch[3]],
                       ok    |-> TRUE],
                      Tail(changes))
             ELSE [array |-> a, ok |-> FALSE]

\* GuiMap.update_states (lines 462-467): self.color_lookup[state] raises
\* IndexError for a state that is no index of the 4-tuple.
map_paint_ok(changes) ==
    \A i \in 1 .. Len(changes) : IndexOk(changes[i][3], ColorCount)

\* GuiEditMatrix.update_states (lines 386-401): the buttons of the records
\* that fall inside the edit box take the record's state.
RECURSIVE matrix_update_states(_, _, _, _)
matrix_update_states(btn, changes, top_left, dimensions) ==
    IF changes = <<>> THEN btn
    ELSE LET ch == Head(changes)
             inside == /\ top_left[1] <= ch[1] /\ ch[1] < top_left[1] + dimensions[1]
                       /\ top_left[2] <= ch[2] /\ ch[2] < top_left[2] + dimensions[2]
             nxt == IF inside
                    THEN [btn EXCEPT ![ch[1] - top_left[1] + 1][ch[2] - top_left[2] + 1] = ch[3]]
                    ELSE btn
         IN  matrix_update_states(nxt, Tail(changes), top_left, dimensions)

\* The full change list update_states builds when called without one
\* (lines 537-542).
all_cells(a) ==
    [k \in 1 .. (Rows(a) * Cols(a)) |->
        << (k - 1) \div Cols(a), (k - 1) % Cols(a),
           Cell(a, (k - 1) \div Cols(a), (k - 1) % Cols(a)) >>]

\* update_states with a change list: the array and the matrix buttons it
\* leaves, and whether it returned without raising.
update_states(a, btn, changes, has_map, has_edit, top_left, dimensions) ==
    LET w  == write_changes([array |-> a, ok |-> TRUE], changes)
        painted == w.ok /\ (has_map => map_paint_ok(changes))
    IN  [array   |-> w.array,
         buttons |-> IF painted /\ has_edit
                     THEN matrix_update_states(btn, changes, top_left, dimensions)
                     ELSE btn,
         ok      |-> painted]

----------------------------------------------------------------------------
(* resize_array (lines 918-968).                                           *)

Abs(i) == IF i < 0 THEN -i ELSE i

Faces == {"n", "e", "s", "w"}

\* np.delete(arr, np.s_[:k], axis) for k >= 0: the slice is clipped to the
\* axis, so at most all of it goes.
delete_first(arr, k, axis) ==
    IF axis = 0
    THEN LET d == Min(k, Rows(arr))
         IN  [shape |-> <<Rows(arr) - d, Cols(arr)>>,
              data  |-> [r \in 1 .. (Rows(arr) - d) |-> arr.data[r + d]]]
    ELSE LET d == Min(k, Cols(arr))
         IN  [shape |-> <<Rows(arr), Cols(arr) - d>>,
              data  |-> [r \in 1 .. Rows(arr) |->
                            [c \in 1 .. (Cols(arr) - d) |-> arr.data[r][c + d]]]]

\* A deletion that takes the first ranks whatever the face.
delete_at_near_edge(arr, k, axis) == delete_first(arr, k, axis)

\* np.delete(arr, np.s_[-k:], axis) for k > 0: the slice starts at
\* max(n - k, 0).
delete_last(arr, k, axis) ==
    IF axis = 0
    THEN LET d == Min(k, Rows(arr))
         IN  [shape |-> <<Rows(arr) - d, Cols(arr)>>,
              data  |-> [r \in 1 .. (Rows(arr) - d) |-> arr.data[r]]]
    ELSE LET d == Min(k, Cols(arr))
         IN  [shape |-> <<Rows(arr), Cols(arr) - d>>,
              data  |-> [r \in 1 .. Rows(arr) |->
                            [c \in 1 .. (Cols(arr) - d) |-> arr.data[r][c]]]]

\* np.append(arr, values, axis) for the blank values of lines 933 and 938.
append_back(arr, k, axis) ==
    IF axis = 0
    THEN [shape |-> <<Rows(arr) + k, Cols(arr)>>,
          data  |-> [r \in 1 .. (Rows(arr) + k) |->
                        IF r <= Rows(arr) THEN arr.data[r]
                        ELSE [c \in 1 .. Cols(arr) |-> 0]]]
    ELSE [shape |-> <<Rows(arr), Cols(arr) + k>>,
          data  |-> [r \in 1 .. Rows(arr) |->
                        [c \in 1 .. (Cols(arr) + k) |->
                            IF c <= Cols(arr) THEN arr.data[r][c] ELSE 0]]]

\* Blank ranks that go to the far edge whatever the face.
insert_at_far_edge(arr, k, axis) == append_back(arr, k, axis)

\* np.insert(arr, 0, values, axis) for the blank values of lines 933 and
\* 941: k blank ranks come first on the axis, the array's own follow.
insert_front(arr, k, axis) ==
    IF axis = 0
    THEN [shape |-> <<Rows(arr) + k, Cols(arr)>>,
          data  |-> [r \in 1 .. (Rows(arr) + k) |->
                        IF r <= k THEN [c \in 1 .. Cols(arr) |-> 0]
                        ELSE arr.data[r - k]]]
    ELSE [shape |-> <<Rows(arr), Cols(arr) + k>>,
          data  |-> [r \in 1 .. Rows(arr) |->
                        [c \in 1 .. (Cols(arr) + k) |->
                            IF c <= k THEN 0 ELSE arr.data[r][c - k]]]]

\* A resize_array that reports the shift on the faces e and s.
resize_array_shift_far_faces(array_input, face, ranks) ==
    LET abs_ranks  == Abs(ranks)
        axis_shift == IF face \in {"n", "s"} THEN 0 ELSE 1
        rank_shift == IF face \in {"e", "s"} THEN ranks ELSE 0
        array_output ==
            IF ranks < 0
            THEN IF face \in {"n", "w"}
                 THEN delete_first(array_input, abs_ranks, axis_shift)
                 ELSE delete_last(array_input, abs_ranks, axis_shift)
            ELSE IF face \in {"n", "w"}
                 THEN insert_front(array_input, abs_ranks, axis_shift)
                 ELSE append_back(array_input, abs_ranks, axis_shift)
    IN  IF face \notin Faces \/ ranks = 0
        THEN [raised |-> TRUE, array_output |-> array_input,
              axis_shift |-> axis_shift, rank_shift |-> 0]
        ELSE [raised |-> FALSE, array_output |-> array_output,
              axis_shift |-> axis_shift, rank_shift |-> rank_shift]

\* A resize_array that deletes one rank whatever the count.
resize_array_deletes_one(array_input, face, ranks) ==
    LET abs_ranks  == Abs(ranks)
        axis_shift == IF face \in {"n", "s"} THEN 0 ELSE 1
        rank_shift == IF face \in {"n", "w"} THEN ranks ELSE 0
        array_output ==
            IF ranks < 0
            THEN IF face \in {"n", "w"}
                 THEN delete_first(array_input, 1, axis_shift)
                 ELSE delete_last(array_input, 1, axis_shift)
            ELSE IF face \in {"n", "w"}
                 THEN insert_front(array_input, abs_ranks, axis_shift)
                 ELSE append_back(array_input, abs_ranks, axis_shift)
    IN  IF face \notin Faces \/ ranks = 0
        THEN [raised |-> TRUE, array_output |-> array_input,
              axis_shift |-> axis_shift, rank_shift |-> 0]
        ELSE [raised |-> FALSE, array_output |-> array_output,
              axis_shift |-> axis_shift, rank_shift |-> rank_shift]

\* A resize_array that takes ranks = 0 as an insertion of no rank.
resize_array_accepts_zero(array_input, face, ranks) ==
    LET abs_ranks  == Abs(ranks)
        axis_shift == IF face \in {"n", "s"} THEN 0 ELSE 1
        rank_shift == IF face \in {"n", "w"} THEN ranks ELSE 0
        array_output ==
            IF ranks < 0
            THEN IF face \in {"n", "w"}
                 THEN delete_first(array_input, abs_ranks, axis_shift)
                 ELSE delete_last(array_input, abs_ranks, axis_shift)
            ELSE IF face \in {"n", "w"}
                 THEN insert_front(array_input, abs_ranks, axis_shift)
                 ELSE append_back(array_input, abs_ranks, axis_shift)
    IN  IF face \notin Faces
        THEN [raised |-> TRUE, array_output |-> array_input,
              axis_shift |-> axis_shift, rank_shift |-> 0]
        ELSE [raised |-> FALSE, array_output |-> array_output,
              axis_shift |-> axis_shift, rank_shift |-> rank_shift]

\* resize_array: whether it raises, and otherwise the array, the axis and
\* the shift it returns.
resize_array(array_input, face, ranks) ==
    LET abs_ranks  == Abs(ranks)
        axis_shift == IF face \in {"n", "s"} THEN 0 ELSE 1
        rank_shift == IF face \in {"n", "w"} THEN ranks ELSE 0
        array_output ==
            IF ranks < 0
            THEN IF face \in {"n", "w"}
                 THEN delete_first(array_input, abs_ranks, axis_shift)
                 ELSE delete_last(array_input, abs_ranks, axis_shift)
            ELSE IF face \in {"n", "w"}
                 THEN insert_front(array_input, abs_ranks, axis_shift)
                 ELSE append_back(array_input, abs_ranks, axis_shift)
    IN  IF face \notin Faces \/ ranks = 0
        THEN [raised |-> TRUE, array_output |-> array_input,
              axis_shift |-> axis_shift, rank_shift |-> 0]
        ELSE [raised |-> FALSE, array_output |-> array_output,
              axis_shift |-> axis_shift, rank_shift |-> rank_shift]

----------------------------------------------------------------------------
(* The edit box (lines 667-697) and the edit matrix (lines 343-384).       *)

\* A limit_edit_box that gives the rank before the one asked for.
limit_edit_box_drifts(a, dimensions, axis, new_value) ==
    IF new_value - 1 > a.shape[axis + 1] - dimensions[axis + 1]
    THEN (IF a.shape[axis + 1] - dimensions[axis + 1] < 0
          THEN 0 ELSE a.shape[axis + 1] - dimensions[axis + 1])
    ELSE (IF new_value - 1 < 0 THEN 0 ELSE new_value - 1)

\* limit_edit_box; axis is 0 or 1.
limit_edit_box(a, dimensions, axis, new_value) ==
    Max(Min(new_value, a.shape[axis + 1] - dimensions[axis + 1]), 0)

\* The states of the 10 x 10 buttons reset_grid creates: ButtonWireCell
\* starts with valid_states[0].
fresh_buttons ==
    [r \in 1 .. EditRows |-> [c \in 1 .. EditCols |-> valid_states[1]]]

\* The hidden flag refresh_grid gives the button at (br, bc).
hidden(a, br, bc) == br >= Rows(a) \/ bc >= Cols(a)

\* refresh_grid: a hidden button takes valid_states[0]; the buttons over
\* array_states[row_offset:row_offset + row_count,
\*              column_offset:column_offset + column_count] take its cells;
\* any other button keeps its state.
refresh_grid(btn, a, top_left, dimensions) ==
    LET array_refresh == Slice2D(a, top_left[1], top_left[1] + dimensions[1],
                                    top_left[2], top_left[2] + dimensions[2])
    IN  [r \in 1 .. EditRows |-> [c \in 1 .. EditCols |->
            IF r <= Rows(array_refresh) /\ c <= Cols(array_refresh)
            THEN array_refresh.data[r][c]
            ELSE IF hidden(a, r - 1, c - 1) THEN valid_states[1]
            ELSE btn[r][c]]]

\* move_edit_box: the new edit_top_left.
move_edit_box(a, top_left, dimensions, axis, ranks) ==
    [top_left EXCEPT ![axis + 1] =
        limit_edit_box(a, dimensions, axis, top_left[axis + 1] + ranks)]

\* A new_edit_box that limits both axes by the rows.
new_edit_box_same_limit(a, dimensions, top_left) ==
    << limit_edit_box(a, dimensions, 0, top_left[1]),
       limit_edit_box(a, dimensions, 0, top_left[2]) >>

\* new_edit_box: the new edit_top_left.
new_edit_box(a, dimensions, top_left) ==
    << limit_edit_box(a, dimensions, 0, top_left[1]),
       limit_edit_box(a, dimensions, 1, top_left[2]) >>

----------------------------------------------------------------------------
(* The instance after construction (lines 34-44, 658-665).                 *)

\* self.array_states = np.array([[0]])
single_empty_cell == [shape |-> <<1, 1>>, data |-> << <<0>> >>]

Call(op, args, ok) == [op |-> op, args |-> args, ok |-> ok]

Init ==
    /\ array_states = single_empty_cell
    /\ array_states_original = single_empty_cell
    /\ has_original = FALSE
    /\ generations = 0
    /\ edit_top_left = <<0, 0>>
    /\ edit_dimensions = <<EditRows, EditCols>>
    /\ keep_playing = FALSE
    /\ play_pc = "idle"
    /\ map_open = FALSE
    /\ edit_open = FALSE
    /\ buttons = fresh_buttons
    /\ cell_tk = "refresh"
    /\ array_changes = <<>>
    /\ last_call = Call("init", <<>>, TRUE)
    /\ clicks = 0

----------------------------------------------------------------------------
(* Handlers.                                                               *)

\* A parse_array that wipes the instance before it looks at its input.
parse_array_wipes_first(array_input) ==
    /\ ~check_2d_array(array_input)
    /\ generations' = 0
    /\ array_states' = single_empty_cell
    /\ edit_dimensions' = <<EditRows, EditCols>>
    /\ last_call' = Call("parse_array", <<array_input>>, FALSE)
    /\ UNCHANGED <<array_states_original, has_original, edit_top_left,
                   keep_playing, play_pc, map_open, edit_open, buttons,
                   cell_tk, array_changes, clicks>>

\* parse_array (lines 521-532). cleanse_array raises before anything is
\* assigned when the input is not 2-dimensional. Otherwise wipe_wireworld
\* runs (edit_top_left exists and is kept), the input becomes the array and
\* its snapshot, create_map_window builds the map and closes the edit box,
\* and update_states() repaints every cell, which raises in the map's
\* colour lookup when a cell is no index of color_lookup.
parse_array(array_input) ==
    IF ~check_2d_array(array_input)
    THEN /\ last_call' = Call("parse_array", <<array_input>>, FALSE)
         /\ UNCHANGED <<array_states, array_states_original, has_original,
                        generations, edit_top_left, edit_dimensions,
                        keep_playing, play_pc, map_open, edit_open, buttons,
                        cell_tk, array_changes, clicks>>
    ELSE \E new_array \in {np_array(cleanse_array(array_input))} :
         \E upd \in {update_states(new_array, fresh_buttons, all_cells(new_array),
                                   TRUE, FALSE, edit_top_left, <<EditRows, EditCols>>)} :
             /\ generations' = 0
             /\ edit_dimensions' = <<EditRows, EditCols>>
             /\ array_states' = upd.array
             /\ array_states_original' = new_array
             /\ has_original' = TRUE
             /\ map_open' = TRUE
             /\ edit_open' = FALSE
             /\ buttons' = fresh_buttons
             /\ cell_tk' = "refresh"
             /\ array_changes' = all_cells(new_array)
             /\ last_call' = Call("parse_array", <<array_input>>, upd.ok)
             /\ UNCHANGED <<edit_top_left, keep_playing, play_pc, clicks>>

\* An advance_step whose change list still holds the records of the call
\* before it.
advance_step_keeps_old_records ==
    \E cyc \in {cycle_states(array_states)} :
    \E upd \in {update_states(cyc.array_input, buttons,
                              array_changes \o cyc.array_changes,
                              map_open, edit_open, edit_top_left, edit_dimensions)} :
        /\ array_states' = upd.array
        /\ buttons' = upd.buttons
        /\ array_changes' = array_changes \o cyc.array_changes
        /\ generations' = IF upd.ok THEN generations + 1 ELSE generations
        /\ last_call' = Call("advance_step", <<>>, upd.ok)

\* An advance_step that counts a generation only when a cell changed.
advance_step_counts_changed_steps ==
    \E cyc \in {cycle_states(array_states)} :
    \E upd \in {update_states(cyc.array_input, buttons, cyc.array_changes,
                              map_open, edit_open, edit_top_left, edit_dimensions)} :
        /\ array_states' = upd.array
        /\ buttons' = upd.buttons
        /\ array_changes' = cyc.array_changes
        /\ generations' = IF upd.ok /\ cyc.array_changes # <<>>
                          THEN generations + 1 ELSE generations
        /\ last_call' = Call("advance_step", <<>>, upd.ok)

\* advance_step (lines 631-637): cycle_states, update_states with its
\* change list, then the generation counter.
advance_step ==
    \E cyc \in {cycle_states(array_states)} :
    \E upd \in {update_states(cyc.array_input, buttons, cyc.array_changes,
                              map_open, edit_open, edit_top_left, edit_dimensions)} :
        /\ array_states' = upd.array
        /\ buttons' = upd.buttons
        /\ array_changes' = cyc.array_changes
        /\ generations' = IF upd.ok THEN generations + 1 ELSE generations
        /\ last_call' = Call("advance_step", <<>>, upd.ok)

\* An AdvanceStep whose writes reach the snapshot too, as they would if
\* the snapshot were no copy of the array.
AdvanceStep_writes_snapshot ==
    /\ map_open /\ ~keep_playing
    /\ generations < MaxGen
    /\ advance_step
    /\ array_states_original' = array_states'
    /\ UNCHANGED <<has_original, edit_top_left,
                   edit_dimensions, keep_playing, play_pc, map_open,
                   edit_open, cell_tk, clicks>>

\* The "Next Time Step" button; enabled while a map exists and playback is
\* off (toggle_interaction_controls, toggle_play_button).
AdvanceStep ==
    /\ map_open /\ ~keep_playing
    /\ generations < MaxGen
    /\ advance_step
    /\ UNCHANGED <<array_states_original, has_original, edit_top_left,
                   edit_dimensions, keep_playing, play_pc, map_open,
                   edit_open, cell_tk, clicks>>

\* wipe_wireworld as map_on_closing runs it, then toggle_edit_box(False)
\* and the destruction of the windows (lines 581-590, 658-665).
map_on_closing ==
    /\ generations' = 0
    /\ array_states' = single_empty_cell
    /\ edit_dimensions' = <<EditRows, EditCols>>
    /\ map_open' = FALSE
    /\ edit_open' = FALSE
    /\ buttons' = fresh_buttons
    /\ cell_tk' = "refresh"
    /\ last_call' = Call("map_on_closing", <<>>, TRUE)
    /\ UNCHANGED <<array_states_original, has_original, edit_top_left,
                   keep_playing, play_pc, array_changes, clicks>>

\* toggle_edit_box (lines 699-712). Showing the box runs create_edit_window
\* (lines 592-615): the matrix is built by reset_grid, which refreshes it
\* at the present edit_top_left, and new_edit_box then limits
\* edit_top_left and refreshes the matrix again.
toggle_edit_box(edit_visible) ==
    /\ IF edit_visible
       THEN \E top_left \in {new_edit_box(array_states, edit_dimensions, edit_top_left)} :
            /\ edit_top_left' = top_left
            /\ buttons' = refresh_grid(
                              refresh_grid(fresh_buttons, array_states,
                                           edit_top_left, edit_dimensions),
                              array_states, top_left, edit_dimensions)
       ELSE /\ edit_top_left' = edit_top_left
            /\ buttons' = fresh_buttons
    /\ edit_open' = edit_visible
    /\ cell_tk' = "refresh"
    /\ last_call' = Call("toggle_edit_box", <<edit_visible>>, TRUE)
    /\ UNCHANGED <<array_states, array_states_original, has_original,
                   generations, edit_dimensions, keep_playing, play_pc,
                   map_open, array_changes, clicks>>

\* refresh_edit_box (lines 689-695) after edit_top_left became top_left.
refresh_edit_box(top_left) ==
    /\ buttons' = IF edit_open
                  THEN refresh_grid(buttons, array_states, top_left, edit_dimensions)
                  ELSE buttons
    /\ cell_tk' = IF edit_open THEN "refresh" ELSE cell_tk

\* The nav buttons (lines 258-263) and move_edit_box (lines 673-678).
MoveEditBox(axis, ranks) ==
    /\ edit_open
    /\ \E top_left \in {move_edit_box(array_states, edit_top_left, edit_dimensions,
                                      axis, ranks)} :
        /\ edit_top_left' = top_left
        /\ refresh_edit_box(top_left)
    /\ last_call' = Call("move_edit_box", <<axis, ranks>>, TRUE)
    /\ UNCHANGED <<array_states, array_states_original, has_original,
                   generations, edit_dimensions, keep_playing, play_pc,
                   map_open, edit_open, array_changes, clicks>>

\* A click on the map (click_event, lines 469-474) asking for the edit box
\* at (row, column), and new_edit_box (lines 680-687).
ClickEvent(row, column) ==
    /\ map_open
    /\ \E top_left \in {new_edit_box(array_states, edit_dimensions, <<row, column>>)} :
        /\ edit_top_left' = top_left
        /\ refresh_edit_box(top_left)
    /\ last_call' = Call("new_edit_box", <<row, column>>, TRUE)
    /\ UNCHANGED <<array_states, array_states_original, has_original,
                   generations, edit_dimensions, keep_playing, play_pc,
                   map_open, edit_open, array_changes, clicks>>

\* WireWorldInstance.resize (lines 720-729). resize_array raises before
\* anything is assigned. Otherwise the array is replaced, the edit box is
\* moved when the shift is not 0 and the array is larger than the box on
\* that axis, the map canvas and the matrix are rebuilt from the array, and
\* update_states() repaints every cell.
resize(face, ranks) ==
    \E res \in {resize_array(array_states, face, ranks)} :
    IF res.raised
    THEN /\ last_call' = Call("resize", <<face, ranks>>, FALSE)
         /\ UNCHANGED <<array_states, array_states_original, has_original,
                        generations, edit_top_left, edit_dimensions,
                        keep_playing, play_pc, map_open, edit_open, buttons,
                        cell_tk, array_changes>>
    ELSE \E moved \in {/\ res.rank_shift # 0
                       /\ res.array_output.shape[res.axis_shift + 1]
                              > edit_dimensions[res.axis_shift + 1]} :
         \E top_left \in {IF moved
                          THEN move_edit_box(res.array_output, edit_top_left,
                                             edit_dimensions, res.axis_shift,
                                             res.rank_shift)
                          ELSE edit_top_left} :
         \E upd \in {update_states(res.array_output,
                                   refresh_grid(buttons, res.array_output,
                                                top_left, edit_dimensions),
                                   all_cells(res.array_output),
                                   map_open, edit_open, top_left, edit_dimensions)} :
             /\ array_states' = upd.array
             /\ edit_top_left' = top_left
             /\ buttons' = upd.buttons
             /\ cell_tk' = "refresh"
             /\ array_changes' = all_cells(res.array_output)
             /\ last_call' = Call("resize", <<face, ranks>>, upd.ok)
             /\ UNCHANGED <<array_states_original, has_original, generations,
                            edit_dimensions, keep_playing, play_pc, map_open,
                            edit_open>>

\* Whether the matrix button at (br, bc) takes clicks: refresh_grid leaves
\* the buttons that are not hidden enabled, toggle_play_button enables or
\* disables all of them.
button_enabled(br, bc) ==
    \/ cell_tk = "normal"
    \/ cell_tk = "refresh" /\ ~hidden(array_states, br, bc)

\* edit_state (lines 329-341) of the matrix button at (br, bc).
edit_state(br, bc) ==
    \E state \in {buttons[br + 1][bc + 1]} :
    \E new_state \in {IF state <= 0 THEN 3 ELSE state - 1} :
    \E changes \in {<< <<br + edit_top_left[1], bc + edit_top_left[2], new_state>> >>} :
    \E upd \in {update_states(array_states, buttons, changes, map_open, edit_open,
                              edit_top_left, edit_dimensions)} :
        /\ array_states' = upd.array
        /\ buttons' = upd.buttons
        /\ array_changes' = changes
        /\ last_call' = Call("edit_state", <<br, bc>>, upd.ok)

----------------------------------------------------------------------------
(* Stepping from every small grid.                                         *)

\* The shapes with at most n cells, and the valid grids of a shape.
Shapes(n) == {sh \in (1 .. n) \X (1 .. n) : sh[1] * sh[2] <= n}
GridsOf(sh, values) ==
    {[shape |-> sh, data |-> d] : d \in [1 .. sh[1] -> [1 .. sh[2] -> values]]}

\* 3 x 3 grids around a Conductor, its 8 neighbours Empty, ElectronHead or
\* Conductor in every combination.
MooreGrids ==
    {[shape |-> <<3, 3>>,
      data  |-> << <<nb[1], nb[2], nb[3]>>,
                   <<nb[4], 3,     nb[5]>>,
                   <<nb[6], nb[7], nb[8]>> >>] : nb \in [1 .. 8 -> {0, 1, 3}]}

\* The grid of the spec's literal example: a head surrounded by conductors.
HeadInConductors ==
    [shape |-> <<3, 3>>,
     data  |-> << <<3, 3, 3>>, <<3, 1, 3>>, <<3, 3, 3>> >>]

\* The instance right after parse_array(g) for a valid array g, with the
\* edit box closed.
Loaded(g) ==
    /\ array_states = g
    /\ array_states_original = g
    /\ has_original = TRUE
    /\ generations = 0
    /\ edit_top_left = <<0, 0>>
    /\ edit_dimensions = <<EditRows, EditCols>>
    /\ keep_playing = FALSE
    /\ play_pc = "idle"
    /\ map_open = TRUE
    /\ edit_open = FALSE
    /\ buttons = fresh_buttons
    /\ cell_tk = "refresh"
    /\ array_changes = all_cells(g)
    /\ last_call = Call("parse_array", <<AsInput(g)>>, TRUE)
    /\ clicks = 0

\* The same after the edit button has opened the edit box.
LoadedWithEditBox(g) ==
    /\ array_states = g
    /\ array_states_original = g
    /\ has_original = TRUE
    /\ generations = 0
    /\ edit_top_left = <<0, 0>>
    /\ edit_dimensions = <<EditRows, EditCols>>
    /\ keep_playing = FALSE
    /\ play_pc = "idle"
    /\ map_open = TRUE
    /\ edit_open = TRUE
    /\ buttons = refresh_grid(fresh_buttons, g, <<0, 0>>, <<EditRows, EditCols>>)
    /\ cell_tk = "refresh"
    /\ array_changes = all_cells(g)
    /\ last_call = Call("toggle_edit_box", <<TRUE>>, TRUE)
    /\ clicks = 0

InitStep ==
    \/ \E sh \in Shapes(MaxCells) : \E g \in GridsOf(sh, 0 .. 3) : Loaded(g)
    \/ \E g \in MooreGrids : Loaded(g)
    \/ Loaded(HeadInConductors)
    \/ Loaded(array_default)

NextStep == AdvanceStep

SpecStep == InitStep /\ [][NextStep]_vars

----------------------------------------------------------------------------
(* Resizing every small grid by any number of ranks.                       *)

InitResize ==
    \E sh \in Shapes(MaxResizeCells) : \E g \in GridsOf(sh, 0 .. 3) :
        LoadedWithEditBox(g)

\* resize(face, ranks) as the first call on the grid loaded.
ResizeCall ==
    /\ edit_open /\ map_open
    /\ clicks = 0
    /\ \E face \in Faces, ranks \in (-MaxRanks) .. MaxRanks : resize(face, ranks)
    /\ clicks' = clicks + 1

NextResize == ResizeCall

SpecResize == InitResize /\ [][NextResize]_vars

\* An insertion on a face followed by the deletion of as many ranks on the
\* same face.
ResizeBack ==
    /\ edit_open /\ map_open
    /\ clicks = 1
    /\ last_call.op = "resize" /\ last_call.ok /\ last_call.args[2] > 0
    /\ resize(last_call.args[1], -last_call.args[2])
    /\ clicks' = clicks + 1

NextRoundTrip ==
    \/ ResizeCall
    \/ ResizeBack

SpecRoundTrip == InitResize /\ [][NextRoundTrip]_vars

----------------------------------------------------------------------------
(* The instance driven through its windows.                                *)

\* What the "Load States" button may read from a file.
LoadInputs ==
    << [kind |-> "list2", data |-> << <<1, 3>>, <<3, 0>> >>],
       [kind |-> "list2", data |-> << <<5, 3>> >>],
       [kind |-> "list2", data |-> << <<2, 1, 3, 3, 3, 3, 3, 3, 3, 3, 3>> >>],
       [kind |-> "list2", data |-> << <<0, 1>>, <<0, 1, 2>> >>],
       [kind |-> "list1", data |-> <<0, 1>>],
       [kind |-> "list3", data |-> << << <<0>>, <<1>> >> >>],
       [kind |-> "none",  data |-> <<>>] >>

\* The row and column a click on the map may ask for.
ClickCoords == {<<-5, -5>>, <<0, 1>>, <<14, 14>>}

\* The matrix buttons that are clicked.
ClickedButtons == {<<0, 0>>, <<0, 1>>, <<9, 9>>}

\* save_load_states in load mode with a file chosen (lines 517-519); the
\* button is enabled while playback is off.
LoadStates ==
    /\ ~keep_playing
    /\ \E i \in 1 .. Len(LoadInputs) : parse_array(LoadInputs[i])

\* The "Default States" button (lines 97-101).
DefaultStates ==
    /\ ~keep_playing
    /\ parse_array([kind |-> "list2", data |-> array_default.data])

\* reset_to_original (lines 714-718).
ResetToOriginal ==
    /\ map_open /\ ~keep_playing
    /\ has_original
    /\ parse_array(AsInput(array_states_original))

\* The edit button (lines 183-195).
ToggleEditBox ==
    /\ map_open /\ ~keep_playing
    /\ toggle_edit_box(~edit_open)

\* edit_on_closing (lines 620-625).
EditOnClosing ==
    /\ edit_open
    /\ toggle_edit_box(FALSE)

MapOnClosing ==
    /\ map_open
    /\ map_on_closing

\* The add and del buttons of the edit window (lines 253-265).
ResizeButton ==
    /\ edit_open /\ map_open
    /\ clicks < MaxClicks
    /\ \E face \in Faces, ranks \in {1, -1} : resize(face, ranks)
    /\ clicks' = clicks + 1

NavButton ==
    \E axis \in {0, 1}, ranks \in {1, -1} : MoveEditBox(axis, ranks)

MapClick ==
    \E rc \in ClickCoords : ClickEvent(rc[1], rc[2])

\* A click on an enabled matrix button.
EditState ==
    /\ edit_open
    /\ clicks < MaxClicks
    /\ \E b \in ClickedButtons :
        /\ button_enabled(b[1], b[2])
        /\ edit_state(b[1], b[2])
    /\ clicks' = clicks + 1
    /\ UNCHANGED <<array_states_original, has_original, generations,
                   edit_top_left, edit_dimensions, keep_playing, play_pc,
                   map_open, edit_open, cell_tk>>

\* continuous_play_start up to its loop (lines 641-646); assigning
\* keep_playing runs toggle_play_button (lines 46-51, 153-168), which
\* disables the matrix buttons.
ContinuousPlayStart ==
    /\ map_open /\ ~keep_playing /\ play_pc = "idle"
    /\ keep_playing' = TRUE
    /\ play_pc' = "update"
    /\ cell_tk' = IF edit_open THEN "disabled" ELSE cell_tk
    /\ last_call' = Call("continuous_play_start", <<>>, TRUE)
    /\ UNCHANGED <<array_states, array_states_original, has_original,
                   generations, edit_top_left, edit_dimensions, map_open,
                   edit_open, buttons, array_changes, clicks>>

\* continuous_play_pause (lines 654-656), run by the play button while it
\* is enabled.
ContinuousPlayPause ==
    /\ map_open /\ keep_playing
    /\ keep_playing' = FALSE
    /\ cell_tk' = IF edit_open THEN "normal" ELSE cell_tk
    /\ last_call' = Call("continuous_play_pause", <<>>, TRUE)
    /\ UNCHANGED <<array_states, array_states_original, has_original,
                   generations, edit_top_left, edit_dimensions, play_pc,
                   map_open, edit_open, buttons, array_changes, clicks>>

\* The rest of one pass of the loop once tk_root.update() has returned
\* (lines 649-652) with the interval elapsed: advance_step, then the test
\* of keep_playing.
PlayLoopStep ==
    /\ play_pc = "update"
    /\ generations < MaxGen
    /\ advance_step
    /\ play_pc' = IF keep_playing THEN "update" ELSE "idle"
    /\ UNCHANGED <<array_states_original, has_original, edit_top_left,
                   edit_dimensions, keep_playing, map_open, edit_open,
                   cell_tk, clicks>>

\* The same with the interval not elapsed, when the loop ends.
PlayLoopExit ==
    /\ play_pc = "update" /\ ~keep_playing
    /\ play_pc' = "idle"
    /\ last_call' = Call("continuous_play_end", <<>>, TRUE)
    /\ UNCHANGED <<array_states, array_states_original, has_original,
                   generations, edit_top_left, edit_dimensions, keep_playing,
                   map_open, edit_open, buttons, cell_tk, array_changes, clicks>>

Next ==
    \/ LoadStates
    \/ DefaultStates
    \/ ResetToOriginal
    \/ AdvanceStep
    \/ ToggleEditBox
    \/ EditOnClosing
    \/ MapOnClosing
    \/ ResizeButton
    \/ NavButton
    \/ MapClick
    \/ EditState
    \/ ContinuousPlayStart
    \/ ContinuousPlayPause
    \/ PlayLoopStep
    \/ PlayLoopExit

Spec == Init /\ [][Next]_vars

----------------------------------------------------------------------------
(* Loading, stepping and resetting.                                        *)

InitParse ==
    \/ Init
    \/ Loaded(HeadInConductors)

NextParse ==
    \/ LoadStates
    \/ DefaultStates
    \/ ResetToOriginal
    \/ AdvanceStep
    \/ MapClick

SpecParse == InitParse /\ [][NextParse]_vars

----------------------------------------------------------------------------
(* Moving the edit box over grids that are larger than it.                 *)

\* The sizes of an axis: one rank, or the edit box's and up to MaxSlack more.
ViewSizes(n) == {1} \cup (n .. (n + MaxSlack))

\* A valid grid of the shape, every cell told from its neighbours.
ViewGrid(rows, cols) ==
    [shape |-> <<rows, cols>>,
     data  |-> [r \in 1 .. rows |-> [c \in 1 .. cols |-> (r + c) % 4]]]

\* The rows and columns new_edit_box is asked for.
ViewCoords == (-1) .. (MaxSlack + 1)

InitViewport ==
    \E rows \in ViewSizes(EditRows), cols \in ViewSizes(EditCols) :
        LoadedWithEditBox(ViewGrid(rows, cols))

ViewClick ==
    \E row \in ViewCoords, column \in ViewCoords : ClickEvent(row, column)

ViewMove ==
    \E axis \in {0, 1}, ranks \in (-MaxMove) .. MaxMove : MoveEditBox(axis, ranks)

\* resize called with no rank to add or delete.
ResizeZero ==
    /\ edit_open /\ map_open
    /\ \E face \in Faces : resize(face, 0)
    /\ UNCHANGED clicks

NextViewport ==
    \/ ViewClick
    \/ ViewMove
    \/ ResizeZero

SpecViewport == InitViewport /\ [][NextViewport]_vars

----------------------------------------------------------------------------
(* A session on a loaded grid: steps, edits, resizes, moves and resets.    *)

\* The grids of the session: the 2 x 2 and the 1 x 11 of LoadInputs.
SessionGrids == {np_array(LoadInputs[1]), np_array(LoadInputs[3])}

InitSession == \E g \in SessionGrids : Loaded(g)

NextSession ==
    \/ AdvanceStep
    \/ ResetToOriginal
    \/ ToggleEditBox
    \/ ResizeButton
    \/ NavButton
    \/ EditState

SpecSession == InitSession /\ [][NextSession]_vars

----------------------------------------------------------------------------
(* update_states called with a change list.                                *)

\* WireWorldInstance.update_states(array_changes) (lines 536-555) called
\* on the instance.
UpdateStates(changes) ==
    \E upd \in {update_states(array_states, buttons, changes, map_open, edit_open,
                              edit_top_left, edit_dimensions)} :
        /\ array_states' = upd.array
        /\ buttons' = upd.buttons
        /\ array_changes' = changes
        /\ last_call' = Call("update_states", <<changes>>, upd.ok)
        /\ UNCHANGED <<array_states_original, has_original, generations,
                       edit_top_left, edit_dimensions, keep_playing, play_pc,
                       map_open, edit_open, cell_tk>>

\* The records of the change lists: rows and columns inside and outside a
\* 2 x 2 grid, states inside and outside valid_states.
ChangeRecords == {-1, 0, 1, 2} \X {-1, 0, 1, 2} \X {0, 3, 5}

ChangeLists ==
    UNION {[1 .. n -> ChangeRecords] : n \in 1 .. MaxChanges}

InitUpdate ==
    \/ Loaded(np_array(LoadInputs[1]))
    \/ LoadedWithEditBox(np_array(LoadInputs[1]))

\* The first call on the grid loaded.
UpdateStatesCall ==
    /\ clicks = 0
    /\ \E changes \in ChangeLists : UpdateStates(changes)
    /\ clicks' = clicks + 1

NextUpdate == UpdateStatesCall

SpecUpdate == InitUpdate /\ [][NextUpdate]_vars

----------------------------------------------------------------------------
(* Editing cells through the matrix buttons.                               *)

\* The matrix buttons pressed: the first and the last of the top row.
EditButtons == {<<0, 0>>, <<0, 9>>}

InitEdit == \E g \in SessionGrids : LoadedWithEditBox(g)

\* A click on an enabled matrix button (lines 293-296).
EditClick ==
    /\ edit_open
    /\ clicks < MaxEdits
    /\ \E b \in EditButtons :
        /\ button_enabled(b[1], b[2])
        /\ edit_state(b[1], b[2])
    /\ clicks' = clicks + 1
    /\ UNCHANGED <<array_states_original, has_original, generations,
                   edit_top_left, edit_dimensions, keep_playing, play_pc,
                   map_open, edit_open, cell_tk>>

NextEdit ==
    \/ EditClick
    \/ NavButton
    \/ ResizeButton

SpecEdit == InitEdit /\ [][NextEdit]_vars

----------------------------------------------------------------------------
(* The Wireworld rule, stated cell by cell.                                *)

\* The in-bounds Moore neighbours of (r, c).
MooreNeighbours(a, r, c) ==
    {n \in Coords(a) : /\ n # <<r, c>>
                       /\ n[1] - r \in {-1, 0, 1}
                       /\ n[2] - c \in {-1, 0, 1}}

MooreHeads(a, r, c) ==
    Cardinality({n \in MooreNeighbours(a, r, c) : Cell(a, n[1], n[2]) = 1})

RuleNext(a, r, c) ==
    CASE Cell(a, r, c) = 0 -> 0
      [] Cell(a, r, c) = 1 -> 2
      [] Cell(a, r, c) = 2 -> 3
      [] Cell(a, r, c) = 3 -> IF MooreHeads(a, r, c) \in {1, 2} THEN 1 ELSE 3

AllValid(a) == \A rc \in Coords(a) : Cell(a, rc[1], rc[2]) \in {0, 1, 2, 3}

Stepped == last_call'.op = "advance_step"

\* C1: after one advance_step on a grid of valid cells, every cell holds
\* what the Wireworld rule gives it from the pre-step grid: 0 stays 0, 1
\* becomes 2, 2 becomes 3, and 3 becomes 1 exactly when 1 or 2 of its
\* in-bounds Moore neighbours were 1, and stays 3 otherwise.
C1_StepFollowsRule ==
    [][(Stepped /\ AllValid(array_states)) =>
          /\ array_states'.shape = array_states.shape
          /\ \A rc \in Coords(array_states) :
                Cell(array_states', rc[1], rc[2]) = RuleNext(array_states, rc[1], rc[2])]_vars

\* A first step has been taken from a grid (kept in the snapshot) in which
\* one conductor had 1 or 2 heads around it and fired, and another had 3 or
\* more and stayed.
C1_Witness ==
    /\ last_call.op = "advance_step" /\ generations = 1
    /\ \E p \in Coords(array_states), q \in Coords(array_states) :
          /\ Cell(array_states_original, p[1], p[2]) = 3
          /\ MooreHeads(array_states_original, p[1], p[2]) \in {1, 2}
          /\ Cell(array_states, p[1], p[2]) = 1
          /\ Cell(array_states_original, q[1], q[2]) = 3
          /\ MooreHeads(array_states_original, q[1], q[2]) >= 3
          /\ Cell(array_states, q[1], q[2]) = 3

\* C2: cycle_states returns with the grid it was given unchanged, and each
\* record it returns carries the state the rule gives that cell from the
\* pre-step grid alone; the grid changes only when update_states writes
\* the records.
C2_CycleReadsPreStepGrid ==
    \A res \in {cycle_states(array_states)} :
        /\ res.array_input = array_states
        /\ \A i \in 1 .. Len(res.array_changes) :
              res.array_changes[i][3] =
                  RuleNext(array_states, res.array_changes[i][1], res.array_changes[i][2])

\* The step from [[1, 3]] has been taken: the conductor saw the head to its
\* left, which an in-place update would already have turned into a tail.
C2_Witness ==
    /\ last_call.op = "advance_step" /\ generations = 1
    /\ array_states_original.data = << <<1, 3>> >>
    /\ array_states.data = << <<2, 1>> >>

RecordsAt(changes, r, c) ==
    {i \in 1 .. Len(changes) : changes[i][1] = r /\ changes[i][2] = c}

\* C3: the change list of a step on a valid grid holds exactly one record
\* for each coordinate whose value differs between the pre-step grid and
\* the next grid, carrying the new value, and none for any other
\* coordinate; it is empty when no cell changes.
C3_ChangeListIsTheDiff ==
    [][(Stepped /\ AllValid(array_states)) =>
          /\ \A rc \in Coords(array_states) :
                Cardinality(RecordsAt(array_changes', rc[1], rc[2])) =
                    IF Cell(array_states, rc[1], rc[2]) # Cell(array_states', rc[1], rc[2])
                    THEN 1 ELSE 0
          /\ \A i \in 1 .. Len(array_changes') :
                /\ <<array_changes'[i][1], array_changes'[i][2]>> \in Coords(array_states)
                /\ array_changes'[i][3] =
                       Cell(array_states', array_changes'[i][1], array_changes'[i][2])
          /\ (array_states' = array_states => array_changes' = <<>>)]_vars

\* A step has changed some cells and left others, conductors among them.
C3_Witness ==
    /\ last_call.op = "advance_step"
    /\ Len(array_changes) > 0
    /\ \E rc \in Coords(array_states) :
          /\ Cell(array_states, rc[1], rc[2]) = 3
          /\ RecordsAt(array_changes, rc[1], rc[2]) = {}

OneConductor == [shape |-> <<1, 1>>, data |-> << <<3>> >>]

\* C4: the neighbourhood of a step is clipped to the grid: a conductor with
\* no head among its in-bounds Moore neighbours stays a conductor, whatever
\* is on the opposite edge, and a 1 x 1 grid holding a conductor holds it
\* after every step.
C4_NeighbourhoodIsClipped ==
    [][Stepped =>
          /\ \A rc \in Coords(array_states) :
                (/\ Cell(array_states, rc[1], rc[2]) = 3
                 /\ MooreHeads(array_states, rc[1], rc[2]) = 0)
                => Cell(array_states', rc[1], rc[2]) = 3
          /\ (array_states = OneConductor => array_states' = OneConductor)]_vars

\* A step has been taken from a grid with a conductor in the first column
\* and a head in the last column of the same row, not adjacent to it, and
\* the conductor is still one; or steps have been taken on the 1 x 1
\* conductor.
C4_Witness ==
    /\ last_call.op = "advance_step"
    /\ \/ /\ generations = 1
          /\ \E r \in 0 .. Rows(array_states) - 1 :
                /\ Cols(array_states) >= 3
                /\ Cell(array_states_original, r, 0) = 3
                /\ Cell(array_states_original, r, Cols(array_states) - 1) = 1
                /\ MooreHeads(array_states_original, r, 0) = 0
                /\ Cell(array_states, r, 0) = 3
       \/ /\ generations = MaxGen
          /\ array_states_original = OneConductor
          /\ array_states = OneConductor

\* C5: from the 3 x 3 grid with a head at (1,1) and conductors around it,
\* the first step gives a tail at (1,1) and heads around it, the second a
\* conductor at (1,1) and tails around it.
C5_HeadInConductorsExample ==
    array_states_original = HeadInConductors =>
        /\ generations = 1 =>
              array_states.data = << <<1, 1, 1>>, <<1, 2, 1>>, <<1, 1, 1>> >>
        /\ generations = 2 =>
              array_states.data = << <<2, 2, 2>>, <<2, 3, 2>>, <<2, 2, 2>> >>

\* The second step of the example has been taken.
C5_Witness ==
    /\ array_states_original = HeadInConductors
    /\ generations = 2
    /\ last_call.op = "advance_step"

\* reset_to_original is the one caller that hands parse_array a numpy array.
ResetRan == last_call'.op = "parse_array" /\ last_call'.args[1].kind = "ndarray"

\* C6: once every cell of the grid is in {0,1,2,3}, every cell still is
\* after an advance_step, an edit click, a resize, a move of the edit box
\* or a reset_to_original.
C6_ValidCellsStayValid ==
    [][(/\ AllValid(array_states)
        /\ \/ last_call'.op \in {"advance_step", "edit_state", "resize",
                                 "move_edit_box", "new_edit_box"}
           \/ ResetRan)
       => AllValid(array_states')]_vars

\* C7: parse_array of a rectangular 2-D input returns without raising and
\* stores cleanse_state of every input value, in the grid and in the
\* snapshot: 0 for a value outside {0,1,2,3}, the value itself otherwise.
C7_IngestionCoerces ==
    (last_call.op = "parse_array" /\ check_2d_array(last_call.args[1])) =>
        \A given \in {np_array(last_call.args[1])} :
            /\ last_call.ok
            /\ array_states.shape = given.shape
            /\ array_states_original.shape = given.shape
            /\ \A rc \in Coords(given) :
                  /\ Cell(array_states, rc[1], rc[2])
                         = cleanse_state(Cell(given, rc[1], rc[2]))
                  /\ Cell(array_states_original, rc[1], rc[2])
                         = cleanse_state(Cell(given, rc[1], rc[2]))

\* C8: parse_array of an input that is not a rectangular 2-D array raises
\* and leaves the grid, the snapshot, the generation counter and the edit
\* box as they were.
C8_BadShapeIsRejected ==
    [][(last_call'.op = "parse_array" /\ ~check_2d_array(last_call'.args[1])) =>
          /\ ~last_call'.ok
          /\ UNCHANGED <<array_states, array_states_original, has_original,
                         generations, edit_top_left, edit_dimensions>>]_vars

\* The jagged input of the spec was refused while a stepped grid was loaded
\* and the edit box was away from the origin.
C8_Witness ==
    /\ last_call.op = "parse_array" /\ ~last_call.ok
    /\ last_call.args[1].kind = "list2"
    /\ ~check_2d_array(last_call.args[1])
    /\ generations > 0
    /\ array_states # single_empty_cell
    /\ edit_top_left # <<0, 0>>

WellFormed(a) ==
    /\ Rows(a) >= 0 /\ Cols(a) >= 0
    /\ Len(a.data) = Rows(a)
    /\ \A r \in 1 .. Rows(a) : Len(a.data[r]) = Cols(a)

\* new is old with k blank ranks added at the face.
Grown(old, new, face, k) ==
    LET dr == IF face = "n" THEN k ELSE 0
        dc == IF face = "w" THEN k ELSE 0
    IN  /\ WellFormed(new)
        /\ Rows(new) = Rows(old) + (IF face \in {"n", "s"} THEN k ELSE 0)
        /\ Cols(new) = Cols(old) + (IF face \in {"e", "w"} THEN k ELSE 0)
        /\ \A rc \in Coords(new) :
              Cell(new, rc[1], rc[2]) =
                  IF <<rc[1] - dr, rc[2] - dc>> \in Coords(old)
                  THEN Cell(old, rc[1] - dr, rc[2] - dc)
                  ELSE 0

\* new is old without the k ranks nearest the face.
Shrunk(old, new, face, k) ==
    LET dr == IF face = "n" THEN k ELSE 0
        dc == IF face = "w" THEN k ELSE 0
    IN  /\ WellFormed(new)
        /\ Rows(new) = Rows(old) - (IF face \in {"n", "s"} THEN k ELSE 0)
        /\ Cols(new) = Cols(old) - (IF face \in {"e", "w"} THEN k ELSE 0)
        /\ \A rc \in Coords(new) :
              Cell(new, rc[1], rc[2]) = Cell(old, rc[1] + dr, rc[2] + dc)

\* C9: a resize by k > 0 ranks on a face gives a grid with k more rows
\* (faces n, s) or columns (faces e, w) and the other dimension unchanged,
\* whose k ranks at that edge are Empty and whose other cells are the old
\* cells in their order, offset by k for n and w and not offset for s and e.
C9_InsertionAddsBlankRanks ==
    [][(last_call'.op = "resize" /\ last_call'.args[2] > 0) =>
          Grown(array_states, array_states', last_call'.args[1], last_call'.args[2])]_vars

\* Two columns have been added on the w face of a grid whose first cell was
\* a conductor, which is now in column 2, and one row on the s face of
\* another.
C9_Witness ==
    /\ last_call.op = "resize" /\ last_call.ok
    /\ \/ /\ last_call.args = <<"w", 2>>
          /\ Cell(array_states_original, 0, 0) = 3
          /\ Cell(array_states, 0, 2) = 3
          /\ Cell(array_states, 0, 0) = 0
       \/ /\ last_call.args = <<"s", 1>>
          /\ Cell(array_states_original, 0, 0) = 3
          /\ Cell(array_states, 0, 0) = 3

\* C10: a resize by -k ranks, k > 0 and smaller than the size of the axis,
\* removes the k rows or columns nearest the face (the first k for n and w,
\* the last k for s and e) and keeps the other cells in their order.
C10_DeletionRemovesNearestRanks ==
    [][(/\ last_call'.op = "resize" /\ last_call'.args[2] < 0
        /\ -last_call'.args[2] <
              (IF last_call'.args[1] \in {"n", "s"}
               THEN Rows(array_states) ELSE Cols(array_states)))
       => Shrunk(array_states, array_states', last_call'.args[1], -last_call'.args[2])]_vars

\* Two columns have been deleted on the e face of [[1, 2, 3]], or one row on
\* the n face of a grid of three rows.
C10_Witness ==
    /\ last_call.op = "resize" /\ last_call.ok
    /\ \/ /\ last_call.args = <<"e", -2>>
          /\ array_states_original.data = << <<1, 2, 3>> >>
          /\ array_states.data = << <<1>> >>
       \/ /\ last_call.args = <<"n", -1>>
          /\ array_states_original.data = << <<1>>, <<2>>, <<3>> >>
          /\ array_states.data = << <<2>>, <<3>> >>

\* C11: for every face and every ranks other than 0, resize_array returns
\* axis 0 for the faces n and s and axis 1 for e and w, and a shift of
\* ranks for the faces n and w and of 0 for e and s.
C11_ReportedAxisAndShift ==
    [][(last_call'.op = "resize" /\ last_call'.args[2] # 0) =>
          \A res \in {resize_array(array_states, last_call'.args[1], last_call'.args[2])} :
              /\ ~res.raised
              /\ res.axis_shift = (IF last_call'.args[1] \in {"n", "s"} THEN 0 ELSE 1)
              /\ res.rank_shift = (IF last_call'.args[1] \in {"n", "w"}
                                   THEN last_call'.args[2] ELSE 0)]_vars

\* One column has been added on the w face: resize_array returned the grid
\* that is now the instance's, with axis 1 and shift 1; or on the e face,
\* with shift 0.
C11_Witness ==
    /\ last_call.op = "resize" /\ last_call.ok
    /\ \/ /\ last_call.args = <<"w", 1>>
          /\ \A res \in {resize_array(array_states_original, "w", 1)} :
                /\ res.array_output = array_states
                /\ res.axis_shift = 1 /\ res.rank_shift = 1
       \/ /\ last_call.args = <<"e", 1>>
          /\ \A res \in {resize_array(array_states_original, "e", 1)} :
                /\ res.array_output = array_states
                /\ res.axis_shift = 1 /\ res.rank_shift = 0

\* C12: inserting k >= 1 ranks on a face and then deleting k ranks on the
\* same face gives back the grid, in shape and in every cell.
C12_InsertThenDeleteRestores ==
    (clicks = 2 /\ last_call.op = "resize") =>
        /\ last_call.ok
        /\ last_call.args[2] < 0
        /\ array_states.shape = array_states_original.shape
        /\ \A rc \in Coords(array_states_original) :
              Cell(array_states, rc[1], rc[2])
                  = Cell(array_states_original, rc[1], rc[2])

\* Two rows were added on the n face of [[1], [3]] and deleted again, or
\* two columns on the e face of [[1, 3]].
C12_Witness ==
    /\ clicks = 2 /\ last_call.op = "resize"
    /\ \/ /\ last_call.args = <<"n", -2>>
          /\ array_states_original.data = << <<1>>, <<3>> >>
       \/ /\ last_call.args = <<"e", -2>>
          /\ array_states_original.data = << <<1, 3>> >>
    /\ array_states = array_states_original

\* C13: a deletion of at least as many ranks as the grid has on that axis
\* raises and leaves the grid unchanged.
C13_DeletionBelowOneIsRejected ==
    [][(/\ last_call'.op = "resize" /\ last_call'.args[2] < 0
        /\ -last_call'.args[2] >=
              (IF last_call'.args[1] \in {"n", "s"}
               THEN Rows(array_states) ELSE Cols(array_states)))
       => (~last_call'.ok /\ array_states' = array_states)]_vars

\* C15: in every reachable state the grid has at least one row and at
\* least one column.
C15_GridIsNeverEmpty ==
    Rows(array_states) >= 1 /\ Cols(array_states) >= 1

\* C14: a resize with ranks = 0 raises on every face and leaves the grid
\* and the position of the edit box unchanged.
C14_ZeroRanksIsRejected ==
    [][(last_call'.op = "resize" /\ last_call'.args[2] = 0) =>
          /\ ~last_call'.ok
          /\ array_states' = array_states
          /\ edit_top_left' = edit_top_left]_vars

\* resize("n", 0) has raised on a grid whose edit box is away from the
\* origin.
C14_Witness ==
    /\ last_call = Call("resize", <<"n", 0>>, FALSE)
    /\ edit_top_left = <<1, 2>>
    /\ array_states = ViewGrid(EditRows + 2, EditCols + 2)

\* The value v limited to lo .. hi.
Clamped(v, lo, hi) == IF v < lo THEN lo ELSE IF v > hi THEN hi ELSE v

C16_EditBoxStaysInsideGrid ==
    \A i \in 1 .. 2 :
        array_states.shape[i] - edit_dimensions[i] >= 0 =>
            /\ 0 <= edit_top_left[i]
            /\ edit_top_left[i] <= array_states.shape[i] - edit_dimensions[i]

\* C17: the dimensions of the edit box never exceed those of the grid, on
\* either axis. Stated here for the states in which the edit box is shown.
C17_EditBoxNoLargerThanGrid ==
    edit_open =>
        \A i \in 1 .. 2 : edit_dimensions[i] <= array_states.shape[i]

\* C19: move_edit_box(axis, ranks) leaves the edit box where
\* new_edit_box would put it when asked for the present position with
\* ranks added on that axis.
C19_MoveIsNewAtOffset ==
    [][last_call'.op = "move_edit_box" =>
          edit_top_left' =
              new_edit_box(array_states, edit_dimensions,
                           [edit_top_left EXCEPT ![last_call'.args[1] + 1] =
                                                     @ + last_call'.args[2]])]_vars

\* The edit box lies within the grid on both axes.
InRange ==
    \A i \in 1 .. 2 :
        /\ 0 <= edit_top_left[i]
        /\ edit_top_left[i] <= array_states.shape[i] - edit_dimensions[i]

\* C20: with the edit box within the grid on both axes, new_edit_box asked
\* for the present position and move_edit_box by 0 ranks leave the position
\* unchanged; and new_edit_box called again with the same argument leaves
\* the position the first call gave.
C20_ClampingIsIdempotent ==
    [][/\ (/\ InRange
           /\ \/ last_call'.op = "new_edit_box" /\ last_call'.args = edit_top_left
              \/ last_call'.op = "move_edit_box" /\ last_call'.args[2] = 0)
          => edit_top_left' = edit_top_left
       /\ (/\ last_call.op = "new_edit_box" /\ last_call'.op = "new_edit_box"
           /\ last_call'.args = last_call.args)
          => edit_top_left' = edit_top_left]_vars

\* move_edit_box by 0 ranks has run with the edit box at (1, 2), within a
\* grid of 12 rows and 12 columns.
C20_Witness ==
    /\ last_call.op = "move_edit_box" /\ last_call.args[2] = 0
    /\ InRange
    /\ edit_top_left = <<1, 2>>

\* C21: the snapshot parse_array takes of a grid G stays equal to G through
\* steps, edits, resizes, moves and resets, and reset_to_original makes the
\* grid equal to G in shape and content and the generation counter 0.
C21_SnapshotIsIndependent ==
    [][/\ array_states_original' = array_states_original
       /\ ResetRan => (/\ array_states' = array_states_original
                       /\ generations' = 0)]_vars

\* reset_to_original has run after a press of a matrix, add or del button,
\* and the grid is the one that was loaded.
C21_Witness ==
    /\ last_call.op = "parse_array" /\ last_call.args[1].kind = "ndarray"
    /\ clicks >= 1
    /\ generations = 0
    /\ array_states \in SessionGrids

\* C28: the generation counter is the number of advance_steps since the
\* last parse_array, reset_to_original or wipe: an advance_step adds
\* exactly 1, an edit, a move of the edit box, a resize or the opening or
\* closing of the edit box leaves it, and parse_array and the wipe of
\* map_on_closing set it to 0.
C28_GenerationsCountSteps ==
    [][/\ Stepped => generations' = generations + 1
       /\ last_call'.op \in {"edit_state", "move_edit_box", "new_edit_box",
                             "resize", "toggle_edit_box"}
             => generations' = generations
       /\ (\/ last_call'.op = "parse_array" /\ check_2d_array(last_call'.args[1])
           \/ last_call'.op = "map_on_closing")
             => generations' = 0]_vars

\* Two advance_steps have been counted on a grid that a matrix, add or del
\* button has changed.
C28_Witness ==
    /\ last_call.op = "advance_step"
    /\ generations = 2
    /\ clicks >= 1

\* The record names a row or a column that the grid has not.
OutOfGrid(ch, a) ==
    \/ ch[1] < 0 \/ ch[1] >= Rows(a)
    \/ ch[2] < 0 \/ ch[2] >= Cols(a)

\* C22: update_states with a change list of which a record names a row or
\* column outside the grid raises and leaves every cell of the grid as it
\* was, the cells of the list's other records too.
C22_OutOfBoundsWritesNothing ==
    [][(/\ last_call'.op = "update_states"
        /\ \E i \in 1 .. Len(last_call'.args[1]) :
              OutOfGrid(last_call'.args[1][i], array_states))
       => (~last_call'.ok /\ array_states' = array_states)]_vars

\* C23: update_states with one record inside the grid whose state is
\* outside {0,1,2,3} returns without raising and stores 0 in that cell.
C23_SetCoercesInvalidState ==
    [][(/\ last_call'.op = "update_states"
        /\ Len(last_call'.args[1]) = 1
        /\ ~OutOfGrid(last_call'.args[1][1], array_states)
        /\ last_call'.args[1][1][3] \notin {0, 1, 2, 3})
       => (/\ last_call'.ok
           /\ Cell(array_states', last_call'.args[1][1][1],
                   last_call'.args[1][1][2]) = 0)]_vars

\* A second instance that starts from the grid g and performs n
\* advance_steps: its grid and its last change list.
RECURSIVE Replay(_, _)
Replay(g, n) ==
    IF n = 0
    THEN [array |-> g, changes |-> all_cells(g)]
    ELSE LET cyc == cycle_states(Replay(g, n - 1).array)
         IN  [array   |-> write_changes([array |-> cyc.array_input, ok |-> TRUE],
                                        cyc.array_changes).array,
              changes |-> cyc.array_changes]

C25_ResizeShiftsEditBox ==
    [][(last_call'.op = "resize" /\ last_call'.ok) =>
          \A i \in {IF last_call'.args[1] \in {"n", "s"} THEN 1 ELSE 2} :
              IF last_call'.args[1] \in {"n", "w"}
              THEN /\ array_states'.shape[i] - edit_dimensions[i] >= 0 =>
                          edit_top_left'[i] =
                              Clamped(edit_top_left[i] + last_call'.args[2], 0,
                                      array_states'.shape[i] - edit_dimensions[i])
                   /\ edit_top_left'[3 - i] = edit_top_left[3 - i]
              ELSE edit_top_left' = edit_top_left]_vars

\* C26: once continuous_play_pause has run during playback, the loop of
\* continuous_play_start ends without another advance_step: the grid and
\* the generation counter are those of the moment of the pause.
C26_PauseStopsAtOnce ==
    [][(~keep_playing /\ play_pc = "update" /\ play_pc' = "idle") =>
          (array_states' = array_states /\ generations' = generations)]_vars

\* C27: while no map window is open the instance holds the wiped 1 x 1
\* Empty grid and the generation counter 0, also when the map was closed
\* during playback.
C27_ClosedMapStaysWiped ==
    ~map_open => (array_states = single_empty_cell /\ generations = 0)

\* The state a click gives a button whose state is s.
EditNext(s) == IF s = 0 THEN 3 ELSE s - 1

\* C29: a click on the matrix button at (br, bc) whose state is s writes 3
\* if s is 0 and s - 1 otherwise to the grid cell at
\* (br + edit_top_left[0], bc + edit_top_left[1]) and to no other cell, so
\* that four clicks on a cell give it its state back.
C29_EditWritesOneCell ==
    [][last_call'.op = "edit_state" =>
          \A target \in {<<last_call'.args[1] + edit_top_left[1],
                           last_call'.args[2] + edit_top_left[2]>>} :
              /\ target \in Coords(array_states)
              /\ array_states'.shape = array_states.shape
              /\ \A rc \in Coords(array_states) :
                    Cell(array_states', rc[1], rc[2]) =
                        IF rc = target
                        THEN EditNext(buttons[last_call'.args[1] + 1]
                                             [last_call'.args[2] + 1])
                        ELSE Cell(array_states, rc[1], rc[2])
              /\ EditNext(EditNext(EditNext(EditNext(
                     Cell(array_states', target[1], target[2])))))
                     = Cell(array_states', target[1], target[2])]_vars

====
